---- MODULE Spec2Model ----
(***************************************************************************)
(* A model of richlog, translated from src/src/richlog:                    *)
(*                                                                         *)
(*   core/handlers.py                                                      *)
(*     BufferedHandler  (lines 119-151)  a list guarded by threading.Lock  *)
(*     AsyncHandler     (lines 85-116)   a bounded queue and one worker    *)
(*     JSONHandler      (lines 30-82)    format, a function of the record  *)
(*   config/settings.py                                                    *)
(*     load_settings    (lines 101-200)  defaults, file, environment       *)
(*     Settings         (lines 31-76)    get_log_level                     *)
(*   utils/context.py                                                      *)
(*     log_context      (lines 7-41)     save, set and restore a level     *)
(*   utils/decorators.py                                                   *)
(*     log_execution_time, log_errors    (lines 9-76)                      *)
(*   core/logger.py, shortcuts.py                                          *)
(*     get_rich_logger and the setup_* factories: logger.handlers          *)
(*                                                                         *)
(* Every Python statement that reads or writes shared state is one step of *)
(* the thread that executes it; pc[t] is the statement thread t executes   *)
(* next.  A log record is identified by the number of the emit call that   *)
(* carries it.  The underlying handler (base_handler) is represented by    *)
(* the log of the calls made on it.  In the BufferedHandler part its calls *)
(* return normally except under SpecRaising, where base_handler's emit and *)
(* flush can also raise.  A function is applied by an action to each       *)
(* argument of a set of arguments drawn at the start.                      *)
(***************************************************************************)
EXTENDS Naturals, Sequences, FiniteSets

\* ---------------------------------------------------------------- bounds
NThreads == 2
MaxCalls == 3
MaxCallsSingle == 6
MaxBufferSize == 2
MaxQueueSize == 3
MaxAsyncEmits == 4

MaxDepth == 3          \* nesting depth of log_context scopes per thread
MaxScopes == 4         \* log_context scopes entered in one behaviour

MaxFactoryCalls == 3   \* factory and addHandler calls on the logger

Threads == 1..NThreads

\* ---------------------------------------------------------------- state
VARIABLES
    \* BufferedHandler
    buffer_size,        \* self.buffer_size
    buffer,             \* self.buffer
    lock,               \* self._lock: 0 when free, else the thread holding it
    closed,             \* logging.Handler.close() has run on the BufferedHandler
    pc,                 \* pc[t]: the statement thread t executes next
    op,                 \* op[t]: the public method thread t is inside
    record,             \* record[t]: the argument of emit
    should_flush,       \* should_flush[t]: the local of emit
    records_to_flush,   \* records_to_flush[t]: the local of flush
    idx,                \* idx[t]: position of the for loop of flush
    base_emitted,       \* records base_handler.emit was called with, in call order
    base_flushes,       \* number of base_handler.flush calls begun
    base_closed,        \* base_handler.close() has been called
    emitted,            \* history: records in the order they were appended
    ncalls,             \* history: number of emit / flush / close calls begun
    post_close,         \* history: records whose emit began after close() returned
    fence,              \* history: fence[t] = Len(emitted) when t's flush()/close()
                        \*   began with no emit call in progress, else 0
    \* AsyncHandler
    queue_size,         \* maxsize of self.queue
    queue,              \* self.queue
    stop_event,         \* self._stop_event
    worker_pc,          \* position of the worker thread in _worker
    worker_record,      \* the local `record` of _worker
    close_pc,           \* position of the thread that calls close()
    async_closed,       \* logging.Handler.close() has run on the AsyncHandler
    async_base_emitted, \* records the worker called base_handler.emit with
    async_base_raised,  \* records for which that call raised
    async_base_closed,  \* base_handler.close() has been called
    enqueued,           \* history: records put_nowait accepted, in order
    dropped,            \* history: records put_nowait refused (queue.Full)
    async_emits,        \* history: number of emit calls
    \* config.settings.load_settings
    config_path,        \* the argument and what the file system holds there
    environ,            \* os.environ: the five RICHLOG_* variables
    ls_pc,              \* position inside load_settings
    settings,           \* the local `settings` of load_settings
    ls_exc,             \* the exception load_settings raised, "None" if none
    \* config.settings.Settings.get_log_level
    self_level,         \* self.level of the Settings object it is called on
    gl_pc,              \* "call" before the call, "done" after it
    gl_out,             \* what the call left: exception and return value
    \* core.handlers.JSONHandler.format
    log_record,         \* record.__dict__ of the LogRecord it is called with
    jf_pc,              \* "call" before the call, "done" after it
    jf_out,             \* what the call left: exception and the JSON object
    \* BufferedHandler over a base_handler that can raise
    propagated,         \* history: the calls that ended with base_handler's exception
    \* AsyncHandler: what was true when close() set the stop flag
    stop_delivered,     \* history: len(base deliveries) at handlers.py:114
    stop_enqueued,      \* history: number of records accepted by emit up to then
    \* utils.context.log_context on one logger
    logger_level,       \* logger_instance.level
    lc_stack,           \* per thread: the log_context scopes it is in, innermost last
    lc_initial,         \* history: the logger's level before any scope
    lc_entered,         \* history: number of scopes entered so far
    lc_exit,            \* history: how the scope left last ended
    \* utils.decorators: one call of a decorated callable
    d_call,             \* the callable, how it is decorated, the decorators' arguments
    d_pc,               \* "call" before the call, "done" after it
    d_result,           \* what the call did: entries logged in order, outcome
    \* core.logger / shortcuts: the logger factories on one logger name
    handlers,           \* logger.handlers, as the kinds of its handlers in order
    parent_handlers,    \* whether an ancestor of the logger has handlers
    f_last,             \* history: the factory call made last, NoCall after addHandler
    f_calls             \* history: number of calls so far

bufVars == <<buffer_size, buffer, lock, closed, pc, op, record, should_flush,
             records_to_flush, idx, base_emitted, base_flushes, base_closed,
             emitted, ncalls, post_close, fence>>

asyncVars == <<queue_size, queue, stop_event, worker_pc, worker_record, close_pc,
               async_closed, async_base_emitted, async_base_raised,
               async_base_closed, enqueued, dropped, async_emits>>

configVars == <<config_path, environ, ls_pc, settings, ls_exc>>

levelVars == <<self_level, gl_pc, gl_out>>

jsonVars == <<log_record, jf_pc, jf_out>>

bufExcVars == <<propagated>>

asyncHistVars == <<stop_delivered, stop_enqueued>>

contextVars == <<logger_level, lc_stack, lc_initial, lc_entered, lc_exit>>

decoVars == <<d_call, d_pc, d_result>>

factoryVars == <<handlers, parent_handlers, f_last, f_calls>>

vars == <<bufVars, asyncVars, configVars, levelVars, jsonVars, bufExcVars, asyncHistVars, contextVars, decoVars, factoryVars>>

\* What an action of one component leaves unchanged: the other components.
exceptBuf == <<asyncVars, configVars, levelVars, jsonVars, bufExcVars, asyncHistVars, contextVars, decoVars, factoryVars>>
exceptAsync == <<bufVars, configVars, levelVars, jsonVars, bufExcVars, asyncHistVars, contextVars, decoVars, factoryVars>>
exceptConfig == <<bufVars, asyncVars, levelVars, jsonVars, bufExcVars, asyncHistVars, contextVars, decoVars, factoryVars>>
exceptLevel == <<bufVars, asyncVars, configVars, jsonVars, bufExcVars, asyncHistVars, contextVars, decoVars, factoryVars>>
exceptJson == <<bufVars, asyncVars, configVars, levelVars, bufExcVars, asyncHistVars, contextVars, decoVars, factoryVars>>
exceptBufExc == <<asyncVars, configVars, levelVars, jsonVars, asyncHistVars, contextVars, decoVars, factoryVars>>
exceptAsyncHist == <<bufVars, configVars, levelVars, jsonVars, bufExcVars, contextVars, decoVars, factoryVars>>
exceptContext == <<bufVars, asyncVars, configVars, levelVars, jsonVars, bufExcVars, asyncHistVars, decoVars, factoryVars>>
exceptDeco == <<bufVars, asyncVars, configVars, levelVars, jsonVars, bufExcVars, asyncHistVars, contextVars, factoryVars>>
exceptFactory == <<bufVars, asyncVars, configVars, levelVars, jsonVars, bufExcVars, asyncHistVars, contextVars, decoVars>>

\* ---------------------------------------------------------------- helpers
Range(s) == {s[k] : k \in 1..Len(s)}

NoDuplicates(s) == \A j, k \in 1..Len(s) : j # k => s[j] # s[k]

IsPrefix(s, u) == Len(s) <= Len(u) /\ \A k \in 1..Len(s) : s[k] = u[k]

RECURSIVE IsSubsequence(_, _)
IsSubsequence(s, u) ==
    IF s = <<>> THEN TRUE
    ELSE IF u = <<>> THEN FALSE
    ELSE IF Head(s) = Head(u) THEN IsSubsequence(Tail(s), Tail(u))
    ELSE IsSubsequence(s, Tail(u))

TotalCalls == ncalls.emit + ncalls.flush + ncalls.close

\* ------------------------------------------------------- BufferedHandler
\* ShouldFlushGt: the threshold test written with > instead of >=.
ShouldFlushGt(buf, size) == Len(buf) > size

\* handlers.py:131  len(self.buffer) >= self.buffer_size
ShouldFlush(buf, size) == Len(buf) >= size

\* handlers.py:139  self.buffer.copy()
Snapshot(buf) == buf

\* ClearedKeep: a flush that forgets to clear the buffer.
ClearedKeep(buf) == buf

\* handlers.py:140  self.buffer.clear()
Cleared(buf) == <<>>

\* handlers.py:146  hasattr(self.base_handler, "flush"): base_handler is a
\* logging.Handler (handlers.py:120), which defines flush.
HasFlush == TRUE

InitBuffered(sizes) ==
    /\ buffer_size \in sizes
    /\ buffer = <<>>
    /\ lock = 0
    /\ closed = FALSE
    /\ pc = [t \in Threads |-> "idle"]
    /\ op = [t \in Threads |-> "none"]
    /\ record = [t \in Threads |-> 0]
    /\ should_flush = [t \in Threads |-> FALSE]
    /\ records_to_flush = [t \in Threads |-> <<>>]
    /\ idx = [t \in Threads |-> 0]
    /\ base_emitted = <<>>
    /\ base_flushes = 0
    /\ base_closed = FALSE
    /\ emitted = <<>>
    /\ ncalls = [emit |-> 0, flush |-> 0, close |-> 0]
    /\ post_close = {}
    /\ fence = [t \in Threads |-> 0]

NoEmitInProgress == \A u \in Threads : op[u] # "emit"

\* The public method of thread t returns: its locals go out of scope.
Return(t) ==
    /\ pc' = [pc EXCEPT ![t] = "idle"]
    /\ op' = [op EXCEPT ![t] = "none"]
    /\ record' = [record EXCEPT ![t] = 0]
    /\ should_flush' = [should_flush EXCEPT ![t] = FALSE]
    /\ records_to_flush' = [records_to_flush EXCEPT ![t] = <<>>]
    /\ idx' = [idx EXCEPT ![t] = 0]
    /\ fence' = [fence EXCEPT ![t] = 0]

\* A thread calls emit(record); handlers.py:128 sets should_flush = False.
\* `limit` bounds the number of emit, flush and close calls made in all.
CallEmit(t, limit) ==
    /\ pc[t] = "idle"
    /\ TotalCalls < limit
    /\ pc' = [pc EXCEPT ![t] = "emit_lock"]
    /\ op' = [op EXCEPT ![t] = "emit"]
    /\ record' = [record EXCEPT ![t] = ncalls.emit + 1]
    /\ should_flush' = [should_flush EXCEPT ![t] = FALSE]
    /\ ncalls' = [ncalls EXCEPT !.emit = @ + 1]
    /\ post_close' = IF closed THEN post_close \cup {ncalls.emit + 1} ELSE post_close
    /\ UNCHANGED <<buffer_size, buffer, lock, closed, records_to_flush, idx,
                   base_emitted, base_flushes, base_closed, emitted, fence>>
    /\ UNCHANGED exceptBuf

\* handlers.py:129  with self._lock:  (acquire)
EmitLock(t) ==
    /\ pc[t] = "emit_lock"
    /\ lock = 0
    /\ lock' = t
    /\ pc' = [pc EXCEPT ![t] = "emit_append"]
    /\ UNCHANGED <<buffer_size, buffer, closed, op, record, should_flush,
                   records_to_flush, idx, base_emitted, base_flushes, base_closed,
                   emitted, ncalls, post_close, fence>>
    /\ UNCHANGED exceptBuf

\* EmitAppendDropClosed: an emit that drops the record once the handler is closed.
EmitAppendDropClosed(t) ==
    /\ pc[t] = "emit_append"
    /\ buffer' = IF closed THEN buffer ELSE Append(buffer, record[t])
    /\ should_flush' = [should_flush EXCEPT ![t] = ShouldFlush(buffer', buffer_size)]
    /\ emitted' = Append(emitted, record[t])
    /\ pc' = [pc EXCEPT ![t] = "emit_unlock"]
    /\ UNCHANGED <<buffer_size, lock, closed, op, record, records_to_flush, idx,
                   base_emitted, base_flushes, base_closed, ncalls, post_close, fence>>
    /\ UNCHANGED exceptBuf

\* handlers.py:130-132  append, then the size check, both under the lock
EmitAppend(t) ==
    /\ pc[t] = "emit_append"
    /\ buffer' = Append(buffer, record[t])
    /\ should_flush' = [should_flush EXCEPT ![t] = ShouldFlush(buffer', buffer_size)]
    /\ emitted' = Append(emitted, record[t])
    /\ pc' = [pc EXCEPT ![t] = "emit_unlock"]
    /\ UNCHANGED <<buffer_size, lock, closed, op, record, records_to_flush, idx,
                   base_emitted, base_flushes, base_closed, ncalls, post_close, fence>>
    /\ UNCHANGED exceptBuf

\* handlers.py:129,134-135  leave the with block; if should_flush: self.flush()
EmitUnlock(t) ==
    /\ pc[t] = "emit_unlock"
    /\ lock' = 0
    /\ IF should_flush[t]
          THEN /\ pc' = [pc EXCEPT ![t] = "flush_lock"]
               /\ UNCHANGED <<op, record, should_flush, records_to_flush, idx, fence>>
          ELSE Return(t)
    /\ UNCHANGED <<buffer_size, buffer, closed, base_emitted, base_flushes,
                   base_closed, emitted, ncalls, post_close>>
    /\ UNCHANGED exceptBuf

\* A thread calls flush().
CallFlush(t, limit) ==
    /\ pc[t] = "idle"
    /\ TotalCalls < limit
    /\ pc' = [pc EXCEPT ![t] = "flush_lock"]
    /\ op' = [op EXCEPT ![t] = "flush"]
    /\ ncalls' = [ncalls EXCEPT !.flush = @ + 1]
    /\ fence' = [fence EXCEPT ![t] = IF NoEmitInProgress THEN Len(emitted) ELSE 0]
    /\ UNCHANGED <<buffer_size, buffer, lock, closed, record, should_flush,
                   records_to_flush, idx, base_emitted, base_flushes, base_closed,
                   emitted, post_close>>
    /\ UNCHANGED exceptBuf

\* A thread calls close(); handlers.py:150 calls self.flush() first.
CallClose(t, limit) ==
    /\ pc[t] = "idle"
    /\ TotalCalls < limit
    /\ pc' = [pc EXCEPT ![t] = "flush_lock"]
    /\ op' = [op EXCEPT ![t] = "close"]
    /\ ncalls' = [ncalls EXCEPT !.close = @ + 1]
    /\ fence' = [fence EXCEPT ![t] = IF NoEmitInProgress THEN Len(emitted) ELSE 0]
    /\ UNCHANGED <<buffer_size, buffer, lock, closed, record, should_flush,
                   records_to_flush, idx, base_emitted, base_flushes, base_closed,
                   emitted, post_close>>
    /\ UNCHANGED exceptBuf

\* handlers.py:138  with self._lock:  (acquire)
FlushLock(t) ==
    /\ pc[t] = "flush_lock"
    /\ lock = 0
    /\ lock' = t
    /\ pc' = [pc EXCEPT ![t] = "flush_swap"]
    /\ UNCHANGED <<buffer_size, buffer, closed, op, record, should_flush,
                   records_to_flush, idx, base_emitted, base_flushes, base_closed,
                   emitted, ncalls, post_close, fence>>
    /\ UNCHANGED exceptBuf

\* handlers.py:139-140  records_to_flush = self.buffer.copy(); self.buffer.clear()
FlushSwap(t) ==
    /\ pc[t] = "flush_swap"
    /\ records_to_flush' = [records_to_flush EXCEPT ![t] = Snapshot(buffer)]
    /\ buffer' = Cleared(buffer)
    /\ idx' = [idx EXCEPT ![t] = 1]
    /\ pc' = [pc EXCEPT ![t] = "flush_unlock"]
    /\ UNCHANGED <<buffer_size, lock, closed, op, record, should_flush,
                   base_emitted, base_flushes, base_closed, emitted, ncalls,
                   post_close, fence>>
    /\ UNCHANGED exceptBuf

\* FlushUnlockLate: the delivery loop placed inside the with block, so that the
\* lock is still held when the loop starts.
FlushUnlockLate(t) ==
    /\ pc[t] = "flush_unlock"
    /\ pc' = [pc EXCEPT ![t] = "flush_loop"]
    /\ UNCHANGED <<buffer_size, buffer, lock, closed, op, record, should_flush,
                   records_to_flush, idx, base_emitted, base_flushes, base_closed,
                   emitted, ncalls, post_close, fence>>
    /\ UNCHANGED exceptBuf

\* handlers.py:138,142  leave the with block before delivering
FlushUnlock(t) ==
    /\ pc[t] = "flush_unlock"
    /\ lock' = 0
    /\ pc' = [pc EXCEPT ![t] = "flush_loop"]
    /\ UNCHANGED <<buffer_size, buffer, closed, op, record, should_flush,
                   records_to_flush, idx, base_emitted, base_flushes, base_closed,
                   emitted, ncalls, post_close, fence>>
    /\ UNCHANGED exceptBuf

\* handlers.py:143-144  for record in records_to_flush: the call of
\* self.base_handler.emit(record) begins.
FlushLoop(t) ==
    /\ pc[t] = "flush_loop"
    /\ idx[t] <= Len(records_to_flush[t])
    /\ base_emitted' = Append(base_emitted, records_to_flush[t][idx[t]])
    /\ pc' = [pc EXCEPT ![t] = "base_emit"]
    /\ UNCHANGED <<buffer_size, buffer, lock, closed, op, record, should_flush,
                   records_to_flush, idx, base_flushes, base_closed, emitted,
                   ncalls, post_close, fence>>
    /\ UNCHANGED exceptBuf

\* handlers.py:144  self.base_handler.emit(record) returns; next iteration
BaseEmitReturn(t) ==
    /\ pc[t] = "base_emit"
    /\ idx' = [idx EXCEPT ![t] = @ + 1]
    /\ pc' = [pc EXCEPT ![t] = "flush_loop"]
    /\ UNCHANGED <<buffer_size, buffer, lock, closed, op, record, should_flush,
                   records_to_flush, base_emitted, base_flushes, base_closed,
                   emitted, ncalls, post_close, fence>>
    /\ UNCHANGED exceptBuf

\* handlers.py:146-147  the loop is over; if hasattr(...): the call of
\* self.base_handler.flush() begins.
FlushBase(t) ==
    /\ pc[t] = "flush_loop"
    /\ idx[t] > Len(records_to_flush[t])
    /\ base_flushes' = IF HasFlush THEN base_flushes + 1 ELSE base_flushes
    /\ pc' = [pc EXCEPT ![t] = "base_flush"]
    /\ UNCHANGED <<buffer_size, buffer, lock, closed, op, record, should_flush,
                   records_to_flush, idx, base_emitted, base_closed, emitted,
                   ncalls, post_close, fence>>
    /\ UNCHANGED exceptBuf

\* handlers.py:147  self.base_handler.flush() returns and flush() with it:
\* back in close() (line 151) or back to the caller of emit / flush.
FlushReturn(t) ==
    /\ pc[t] = "base_flush"
    /\ IF op[t] = "close"
          THEN /\ pc' = [pc EXCEPT ![t] = "close_super"]
               /\ UNCHANGED <<op, record, should_flush, records_to_flush, idx, fence>>
          ELSE Return(t)
    /\ UNCHANGED <<buffer_size, buffer, lock, closed, base_emitted, base_flushes,
                   base_closed, emitted, ncalls, post_close>>
    /\ UNCHANGED exceptBuf

\* handlers.py:151  super().close(): logging.Handler.close() marks this handler
\* closed; base_handler.close() is not called anywhere in the class.
CloseSuper(t) ==
    /\ pc[t] = "close_super"
    /\ closed' = TRUE
    /\ Return(t)
    /\ UNCHANGED <<buffer_size, buffer, lock, base_emitted, base_flushes,
                   base_closed, emitted, ncalls, post_close>>
    /\ UNCHANGED exceptBuf

\* No call has ended with an exception yet.
InitPropagated == propagated = <<>>

\* handlers.py:144  self.base_handler.emit(record) raises.  flush has no
\* try: the exception leaves flush, and emit (line 135) or close (line 150)
\* with it, and reaches the caller; the rest of the snapshot is not delivered
\* and, in close, super().close() is not reached.
BaseEmitRaise(t) ==
    /\ pc[t] = "base_emit"
    /\ propagated' = Append(propagated, [thread |-> t, op |-> op[t]])
    /\ Return(t)
    /\ UNCHANGED <<buffer_size, buffer, lock, closed, base_emitted, base_flushes,
                   base_closed, emitted, ncalls, post_close>>
    /\ UNCHANGED exceptBufExc

\* handlers.py:147  self.base_handler.flush() raises; as above
FlushBaseRaise(t) ==
    /\ pc[t] = "base_flush"
    /\ propagated' = Append(propagated, [thread |-> t, op |-> op[t]])
    /\ Return(t)
    /\ UNCHANGED <<buffer_size, buffer, lock, closed, base_emitted, base_flushes,
                   base_closed, emitted, ncalls, post_close>>
    /\ UNCHANGED exceptBufExc

BufferedStep(t, limit) ==
    \/ CallEmit(t, limit)
    \/ EmitLock(t)
    \/ EmitAppend(t)
    \/ EmitUnlock(t)
    \/ CallFlush(t, limit)
    \/ CallClose(t, limit)
    \/ FlushLock(t)
    \/ FlushSwap(t)
    \/ FlushUnlock(t)
    \/ FlushLoop(t)
    \/ BaseEmitReturn(t)
    \/ FlushBase(t)
    \/ FlushReturn(t)
    \/ CloseSuper(t)

\* ---------------------------------------------------------- AsyncHandler
\* QueueFullNever: a queue built without maxsize, which is never full.
QueueFullNever(q, maxsize) == FALSE

\* handlers.py:89,96-97  queue.Queue(maxsize=queue_size).put_nowait raises
\* queue.Full when 0 < maxsize <= qsize.
QueueFull(q, maxsize) == maxsize > 0 /\ Len(q) >= maxsize

\* QueueItemLast: a worker that takes the newest record of the queue (LIFO).
QueueItemLast(q) == q[Len(q)]

\* handlers.py:104  the item self.queue.get returns: the oldest one
QueueItem(q) == Head(q)

\* handlers.py:104  what self.queue.get leaves in the queue
QueueRest(q) == Tail(q)

\* handlers.py:86-92  __init__: the empty queue, the cleared event, and the
\* worker thread started at the top of its loop.
InitAsync(sizes) ==
    /\ queue_size \in sizes
    /\ queue = <<>>
    /\ stop_event = FALSE
    /\ worker_pc = "loop"
    /\ worker_record = 0
    /\ close_pc = "idle"
    /\ async_closed = FALSE
    /\ async_base_emitted = <<>>
    /\ async_base_raised = {}
    /\ async_base_closed = FALSE
    /\ enqueued = <<>>
    /\ dropped = {}
    /\ async_emits = 0

\* AsyncEmit that, on queue.Full, hands the record to base_handler.emit from
\* the producer's own thread.
AsyncEmitDirectWhenFull ==
    /\ async_emits < MaxAsyncEmits
    /\ async_emits' = async_emits + 1
    /\ IF QueueFull(queue, queue_size)
          THEN /\ async_base_emitted' = Append(async_base_emitted, async_emits + 1)
               /\ UNCHANGED <<queue, enqueued, dropped>>
          ELSE /\ queue' = Append(queue, async_emits + 1)
               /\ enqueued' = Append(enqueued, async_emits + 1)
               /\ UNCHANGED <<dropped, async_base_emitted>>
    /\ UNCHANGED <<queue_size, stop_event, worker_pc, worker_record, close_pc,
                   async_closed, async_base_raised, async_base_closed>>
    /\ UNCHANGED exceptAsync

\* handlers.py:94-99  emit: put_nowait, and queue.Full is swallowed.  The
\* queue's own mutex makes the put one step.
AsyncEmit ==
    /\ async_emits < MaxAsyncEmits
    /\ async_emits' = async_emits + 1
    /\ IF QueueFull(queue, queue_size)
          THEN /\ dropped' = dropped \cup {async_emits + 1}
               /\ UNCHANGED <<queue, enqueued>>
          ELSE /\ queue' = Append(queue, async_emits + 1)
               /\ enqueued' = Append(enqueued, async_emits + 1)
               /\ UNCHANGED dropped
    /\ UNCHANGED <<queue_size, stop_event, worker_pc, worker_record, close_pc,
                   async_closed, async_base_emitted, async_base_raised,
                   async_base_closed>>
    /\ UNCHANGED exceptAsync

\* The stop flag has not been set yet.
InitAsyncHist ==
    /\ stop_delivered = 0
    /\ stop_enqueued = 0

\* WorkerLoop with while True: the worker never looks at the stop flag.
WorkerLoopIgnoreStop ==
    /\ worker_pc = "loop"
    /\ worker_pc' = "get"
    /\ UNCHANGED <<queue_size, queue, stop_event, worker_record, close_pc,
                   async_closed, async_base_emitted, async_base_raised,
                   async_base_closed, enqueued, dropped, async_emits>>
    /\ UNCHANGED exceptAsync

\* handlers.py:102  while not self._stop_event.is_set():
WorkerLoop ==
    /\ worker_pc = "loop"
    /\ worker_pc' = IF stop_event THEN "exit" ELSE "get"
    /\ UNCHANGED <<queue_size, queue, stop_event, worker_record, close_pc,
                   async_closed, async_base_emitted, async_base_raised,
                   async_base_closed, enqueued, dropped, async_emits>>
    /\ UNCHANGED exceptAsync

\* handlers.py:104-105  record = self.queue.get(timeout=0.1) returns an item
\* (emit only ever enqueues records, so it is not None).
WorkerGet ==
    /\ worker_pc = "get"
    /\ queue # <<>>
    /\ worker_record' = QueueItem(queue)
    /\ queue' = QueueRest(queue)
    /\ worker_pc' = "deliver"
    /\ UNCHANGED <<queue_size, stop_event, close_pc, async_closed,
                   async_base_emitted, async_base_raised, async_base_closed,
                   enqueued, dropped, async_emits>>
    /\ UNCHANGED exceptAsync

\* WorkerTimeout with break in place of continue: an empty queue ends the
\* worker.
WorkerTimeoutBreak ==
    /\ worker_pc = "get"
    /\ queue = <<>>
    /\ worker_pc' = "exit"
    /\ UNCHANGED <<queue_size, queue, stop_event, worker_record, close_pc,
                   async_closed, async_base_emitted, async_base_raised,
                   async_base_closed, enqueued, dropped, async_emits>>
    /\ UNCHANGED exceptAsync

\* handlers.py:104,107-108  the queue stayed empty for the timeout:
\* queue.Empty, continue
WorkerTimeout ==
    /\ worker_pc = "get"
    /\ queue = <<>>
    /\ worker_pc' = "loop"
    /\ UNCHANGED <<queue_size, queue, stop_event, worker_record, close_pc,
                   async_closed, async_base_emitted, async_base_raised,
                   async_base_closed, enqueued, dropped, async_emits>>
    /\ UNCHANGED exceptAsync

\* WorkerDeliver without the except Exception clause: an exception of
\* base_handler.emit ends the worker.
WorkerDeliverNoCatch ==
    /\ worker_pc = "deliver"
    /\ async_base_emitted' = Append(async_base_emitted, worker_record)
    /\ \E raised \in BOOLEAN :
          /\ async_base_raised' = IF raised THEN async_base_raised \cup {worker_record}
                                            ELSE async_base_raised
          /\ worker_pc' = IF raised THEN "exit" ELSE "loop"
    /\ worker_record' = 0
    /\ UNCHANGED <<queue_size, queue, stop_event, close_pc, async_closed,
                   async_base_closed, enqueued, dropped, async_emits>>
    /\ UNCHANGED exceptAsync

\* handlers.py:106,109-111  self.base_handler.emit(record) returns or raises;
\* an Exception is swallowed and the loop goes on.
WorkerDeliver ==
    /\ worker_pc = "deliver"
    /\ async_base_emitted' = Append(async_base_emitted, worker_record)
    /\ \E raised \in BOOLEAN :
          async_base_raised' = IF raised THEN async_base_raised \cup {worker_record}
                                         ELSE async_base_raised
    /\ worker_record' = 0
    /\ worker_pc' = "loop"
    /\ UNCHANGED <<queue_size, queue, stop_event, close_pc, async_closed,
                   async_base_closed, enqueued, dropped, async_emits>>
    /\ UNCHANGED exceptAsync

\* handlers.py:114  self._stop_event.set()
AsyncCloseSet ==
    /\ close_pc = "idle"
    /\ stop_event' = TRUE
    /\ stop_delivered' = Len(async_base_emitted)
    /\ stop_enqueued' = Len(enqueued)
    /\ close_pc' = "join"
    /\ UNCHANGED <<queue_size, queue, worker_pc, worker_record, async_closed,
                   async_base_emitted, async_base_raised, async_base_closed,
                   enqueued, dropped, async_emits>>
    /\ UNCHANGED exceptAsyncHist

\* handlers.py:115  join(timeout=1.0) returns because the worker has finished
AsyncJoinDone ==
    /\ close_pc = "join"
    /\ worker_pc = "exit"
    /\ close_pc' = "super"
    /\ UNCHANGED <<queue_size, queue, stop_event, worker_pc, worker_record,
                   async_closed, async_base_emitted, async_base_raised,
                   async_base_closed, enqueued, dropped, async_emits>>
    /\ UNCHANGED exceptAsync

\* AsyncJoinTimeout with a join timeout shorter than the worker's own wait:
\* join gives up wherever the worker is.
AsyncJoinTimeoutAnywhere ==
    /\ close_pc = "join"
    /\ worker_pc # "exit"
    /\ close_pc' = "super"
    /\ UNCHANGED <<queue_size, queue, stop_event, worker_pc, worker_record,
                   async_closed, async_base_emitted, async_base_raised,
                   async_base_closed, enqueued, dropped, async_emits>>
    /\ UNCHANGED exceptAsync

\* handlers.py:115  join(timeout=1.0) returns because the timeout elapsed: the
\* worker is inside a base_handler.emit that takes longer than that.
AsyncJoinTimeout ==
    /\ close_pc = "join"
    /\ worker_pc = "deliver"
    /\ close_pc' = "super"
    /\ UNCHANGED <<queue_size, queue, stop_event, worker_pc, worker_record,
                   async_closed, async_base_emitted, async_base_raised,
                   async_base_closed, enqueued, dropped, async_emits>>
    /\ UNCHANGED exceptAsync

\* handlers.py:116  super().close(): logging.Handler.close() on the
\* AsyncHandler itself; base_handler.close() is not called.
AsyncCloseSuper ==
    /\ close_pc = "super"
    /\ async_closed' = TRUE
    /\ close_pc' = "done"
    /\ UNCHANGED <<queue_size, queue, stop_event, worker_pc, worker_record,
                   async_base_emitted, async_base_raised, async_base_closed,
                   enqueued, dropped, async_emits>>
    /\ UNCHANGED exceptAsync

\* ------------------------------------------------------- config.settings
\* A string whose case the code changes, or that it splits and strips, is a
\* sequence of characters; a character is a record of its lower-case form c
\* and of whether it is written in upper case.
NonLetters == {" ", ","}

Lo(w) == [k \in 1..Len(w) |-> [c |-> w[k], up |-> FALSE]]

Up(w) == [k \in 1..Len(w) |-> [c |-> w[k], up |-> w[k] \notin NonLetters]]

\* str.upper and str.lower
upper(s) == [k \in 1..Len(s) |-> [c |-> s[k].c, up |-> s[k].c \notin NonLetters]]

lower(s) == [k \in 1..Len(s) |-> [c |-> s[k].c, up |-> FALSE]]

\* str.strip
RECURSIVE lstrip(_)
lstrip(s) == IF s # <<>> /\ Head(s).c = " " THEN lstrip(Tail(s)) ELSE s

RECURSIVE rstrip(_)
rstrip(s) ==
    IF s # <<>> /\ s[Len(s)].c = " " THEN rstrip(SubSeq(s, 1, Len(s) - 1)) ELSE s

strip(s) == rstrip(lstrip(s))

\* str.split(",")
RECURSIVE split(_)
split(s) ==
    IF \E k \in 1..Len(s) : s[k].c = ","
       THEN LET k == CHOOSE i \in 1..Len(s) :
                        /\ s[i].c = ","
                        /\ \A j \in 1..(i - 1) : s[j].c # ","
            IN  <<SubSeq(s, 1, k - 1)>> \o split(SubSeq(s, k + 1, Len(s)))
       ELSE <<s>>

\* settings.py:174,197  [s.strip() for s in text.split(",") if s.strip()]
split_strip(text) ==
    LET parts == split(text)
        stripped == [k \in 1..Len(parts) |-> strip(parts[k])]
    IN  SelectSeq(stripped, LAMBDA part : part # <<>>)

DEBUG == Up(<<"d", "e", "b", "u", "g">>)
INFO == Up(<<"i", "n", "f", "o">>)
WARNING == Up(<<"w", "a", "r", "n", "i", "n", "g">>)
ERROR == Up(<<"e", "r", "r", "o", "r">>)
CRITICAL == Up(<<"c", "r", "i", "t", "i", "c", "a", "l">>)

\* settings.py:53
valid_levels == {DEBUG, INFO, WARNING, ERROR, CRITICAL}

\* settings.py:69-75  the values of logging.DEBUG .. logging.CRITICAL
level_map ==
    [l \in valid_levels |->
        CASE l = DEBUG -> 10
          [] l = INFO -> 20
          [] l = WARNING -> 30
          [] l = ERROR -> 40
          [] l = CRITICAL -> 50]

\* settings.py:44-62  Settings._validate_log_level: "True" when the level is
\* valid; when it is not, "ConfigError" (raised) if raise_on_invalid, else
\* "False"
validate_log_level(level, raise_on_invalid) ==
    IF upper(level) \notin valid_levels
       THEN IF raise_on_invalid THEN "ConfigError" ELSE "False"
       ELSE "True"

\* What a call leaves: the exception it raised ("None" if it returned) and
\* the value it returned
Returned(value) == [exc |-> "None", value |-> value]
Raised(exc) == [exc |-> exc, value |-> 0]

\* get_log_level that validates with the default raise_on_invalid=True
get_log_level_raising(level) ==
    LET valid == validate_log_level(level, TRUE)
    IN  IF valid = "ConfigError" THEN Raised("ConfigError")
        ELSE IF valid = "False" THEN Returned(20)
        ELSE IF upper(level) \in DOMAIN level_map
                THEN Returned(level_map[upper(level)])
                ELSE Returned(20)

\* settings.py:64-76  Settings.get_log_level: logging.INFO for an invalid
\* level, else level_map.get(self.level.upper(), logging.INFO)
get_log_level(level) ==
    LET valid == validate_log_level(level, FALSE)
    IN  IF valid = "ConfigError" THEN Raised("ConfigError")
        ELSE IF valid = "False" THEN Returned(20)
        ELSE IF upper(level) \in DOMAIN level_map
                THEN Returned(level_map[upper(level)])
                ELSE Returned(20)

\* The values of richlog.config.defaults, as tests/config/test_defaults.py
\* pins them.
DEFAULT_LEVEL == INFO
DEFAULT_LOG_FORMAT == "DEFAULT"
DEFAULT_DATE_FORMAT == "DEFAULT"
DEFAULT_RICH_TRACEBACKS == TRUE
DEFAULT_TRACEBACK_SUPPRESS == <<>>

\* settings.py:31-42  Settings()
Settings ==
    [level |-> DEFAULT_LEVEL,
     format |-> DEFAULT_LOG_FORMAT,
     date_format |-> DEFAULT_DATE_FORMAT,
     rich_tracebacks |-> DEFAULT_RICH_TRACEBACKS,
     traceback_suppress |-> DEFAULT_TRACEBACK_SUPPRESS]

\* A key of the file or a variable of the environment: absent (the lookup
\* gives None / the fallback), or present with a value.
Absent(v) == [set |-> FALSE, val |-> v]
Present(v) == [set |-> TRUE, val |-> v]

\* dict.get(key, default) and section.get(key, fallback)
Get(opt, default) == IF opt.set THEN opt.val ELSE default

\* The outcome of a loader: the exception it raised ("None" if it returned)
\* and the settings object as it left it.
Outcome(exc, s) == [exc |-> exc, settings |-> s]

\* settings.py:136-154  _load_from_toml.  rich_tracebacks and
\* traceback_suppress are the boolean and the array tomllib parsed.
load_from_toml(s, f) ==
    IF f.kind = "unreadable" THEN Outcome("OSError", s)
    ELSE IF f.kind = "malformed" THEN Outcome("ConfigError", s)
    ELSE LET loaded ==
                 IF f.section
                    THEN [level |-> Get(f.level, s.level),
                          format |-> Get(f.format, s.format),
                          date_format |-> Get(f.date_format, s.date_format),
                          rich_tracebacks |-> Get(f.rich_tracebacks, s.rich_tracebacks),
                          traceback_suppress |->
                              IF f.traceback_suppress.set
                                 THEN f.traceback_suppress.val
                                 ELSE s.traceback_suppress]
                    ELSE s
         IN  IF validate_log_level(loaded.level, TRUE) = "True"
                THEN Outcome("None", loaded)
                ELSE Outcome("ConfigError", loaded)

\* settings.py:157-177  _load_from_ini.  ConfigParser.read skips a file it
\* cannot open; rich_tracebacks is the boolean getboolean parsed (a value it
\* rejects makes the file malformed).
load_from_ini(s, f) ==
    IF f.kind = "malformed" THEN Outcome("ConfigError", s)
    ELSE LET loaded ==
                 IF f.kind = "ok" /\ f.section
                    THEN [level |-> Get(f.level, s.level),
                          format |-> Get(f.format, s.format),
                          date_format |-> Get(f.date_format, s.date_format),
                          rich_tracebacks |-> Get(f.rich_tracebacks, s.rich_tracebacks),
                          traceback_suppress |->
                              IF f.traceback_suppress.set
                                 THEN split_strip(f.traceback_suppress.val)
                                 ELSE s.traceback_suppress]
                    ELSE s
         IN  IF validate_log_level(loaded.level, TRUE) = "True"
                THEN Outcome("None", loaded)
                ELSE Outcome("ConfigError", loaded)

\* settings.py:192  ("true", "1", "yes", "on")
TrueWords ==
    {Lo(<<"t", "r", "u", "e">>), Lo(<<"1">>), Lo(<<"y", "e", "s">>), Lo(<<"o", "n">>)}

\* settings.py:180-200  _load_from_env.  `if value := os.getenv(..)` is taken
\* for a non-empty string; rich_tracebacks tests `is not None`.
load_from_env(s, env) ==
    LET loaded ==
            [level |-> IF env.level.set /\ env.level.val # <<>>
                          THEN env.level.val ELSE s.level,
             format |-> IF env.format.set /\ env.format.val # ""
                           THEN env.format.val ELSE s.format,
             date_format |-> IF env.date_format.set /\ env.date_format.val # ""
                                THEN env.date_format.val ELSE s.date_format,
             rich_tracebacks |->
                 IF env.rich_tracebacks.set
                    THEN lower(env.rich_tracebacks.val) \in TrueWords
                    ELSE s.rich_tracebacks,
             traceback_suppress |->
                 IF env.traceback_suppress.set /\ env.traceback_suppress.val # <<>>
                    THEN split_strip(env.traceback_suppress.val)
                    ELSE s.traceback_suppress]
    IN  IF validate_log_level(loaded.level, TRUE) = "True"
           THEN Outcome("None", loaded)
           ELSE Outcome("ConfigError", loaded)

\* ---- the calls of load_settings that are checked
BOGUS == Up(<<"b", "o", "g", "u", "s">>)

\* config_path=None
NoPath ==
    [kind |-> "none", suffix |-> ".ini", section |-> FALSE,
     level |-> Absent(<<>>), format |-> Absent(""), date_format |-> Absent(""),
     rich_tracebacks |-> Absent(FALSE), traceback_suppress |-> Absent(<<>>)]

\* A path that holds nothing load_settings can take values from: kind is
\* "missing" (nothing exists there), "unreadable" (it exists and cannot be
\* opened, e.g. a directory), "malformed" (its content does not parse) or
\* "ok" (it parses and has no [richlog] section).
EmptyFile(kind, suffix) == [NoPath EXCEPT !.kind = kind, !.suffix = suffix]

Suffixes == {".toml", ".ini"}

FileLevels == {Absent(<<>>), Present(ERROR), Present(lower(WARNING)), Present(BOGUS)}
FileFormats == {Absent(""), Present("SIMPLE")}
FileDateFormats == {Absent(""), Present("EU")}
FileTracebacks == {Absent(FALSE), Present(TRUE), Present(FALSE)}

\* traceback_suppress = ["a", "b"] in TOML, traceback_suppress = a, b in INI
FileSuppress(suffix) ==
    {Absent(<<>>),
     Present(IF suffix = ".toml"
                THEN <<Lo(<<"a">>), Lo(<<"b">>)>>
                ELSE Lo(<<"a", ",", " ", "b">>))}

\* The files with a [richlog] section
FilesWithSection(suffix) ==
    [kind : {"ok"}, suffix : {suffix}, section : {TRUE},
     level : FileLevels, format : FileFormats, date_format : FileDateFormats,
     rich_tracebacks : FileTracebacks, traceback_suppress : FileSuppress(suffix)]

Paths(suffix) ==
    {NoPath}
        \cup {EmptyFile(kind, suffix) : kind \in {"missing", "unreadable", "malformed", "ok"}}
        \cup FilesWithSection(suffix)

EnvLevels == {Absent(<<>>), Present(<<>>), Present(DEBUG), Present(BOGUS)}
EnvFormats == {Absent(""), Present(""), Present("DETAILED")}
EnvDateFormats == {Absent(""), Present(""), Present("US")}
EnvTracebacks ==
    {Absent(<<>>), Present(<<>>), Present(Lo(<<"f", "a", "l", "s", "e">>)),
     Present(Up(<<"t", "r", "u", "e">>))}
EnvSuppress ==
    {Absent(<<>>), Present(<<>>), Present(Lo(<<" ", "m", ",", ",", "n", " ">>))}

\* RICHLOG_LEVEL, RICHLOG_FORMAT, RICHLOG_DATE_FORMAT, RICHLOG_RICH_TRACEBACKS,
\* RICHLOG_TRACEBACK_SUPPRESS
Environs ==
    [level : EnvLevels, format : EnvFormats, date_format : EnvDateFormats,
     rich_tracebacks : EnvTracebacks, traceback_suppress : EnvSuppress]

\* No RICHLOG_* variable is set
NoEnviron ==
    [level |-> Absent(<<>>), format |-> Absent(""), date_format |-> Absent(""),
     rich_tracebacks |-> Absent(<<>>), traceback_suppress |-> Absent(<<>>)]

\* The call load_settings is about to serve: its argument with the state of
\* the file system at that path, and the environment.
InitConfig(paths, environs) ==
    /\ config_path \in paths
    /\ environ \in environs
    /\ ls_pc = "start"
    /\ settings = Settings
    /\ ls_exc = "None"

\* settings.py:109-114  settings = Settings(); a missing path raises
LsStart ==
    /\ ls_pc = "start"
    /\ settings' = Settings
    /\ IF config_path.kind = "none"
          THEN ls_pc' = "env" /\ ls_exc' = "None"
          ELSE IF config_path.kind = "missing"
                  THEN ls_pc' = "raised" /\ ls_exc' = "ConfigError"
                  ELSE ls_pc' = "file" /\ ls_exc' = "None"
    /\ UNCHANGED <<config_path, environ>>
    /\ UNCHANGED exceptConfig

\* settings.py:116-122  the loader chosen by the suffix; whatever it raises
\* leaves load_settings as a ConfigError
LsFile ==
    /\ ls_pc = "file"
    /\ LET out == IF config_path.suffix = ".toml"
                     THEN load_from_toml(settings, config_path)
                     ELSE load_from_ini(settings, config_path)
       IN  /\ settings' = out.settings
           /\ IF out.exc = "None"
                 THEN ls_pc' = "env" /\ ls_exc' = "None"
                 ELSE ls_pc' = "raised" /\ ls_exc' = "ConfigError"
    /\ UNCHANGED <<config_path, environ>>
    /\ UNCHANGED exceptConfig

\* settings.py:125-128  _load_from_env, wrapped the same way
LsEnv ==
    /\ ls_pc = "env"
    /\ LET out == load_from_env(settings, environ)
       IN  /\ settings' = out.settings
           /\ IF out.exc = "None"
                 THEN ls_pc' = "validate" /\ ls_exc' = "None"
                 ELSE ls_pc' = "raised" /\ ls_exc' = "ConfigError"
    /\ UNCHANGED <<config_path, environ>>
    /\ UNCHANGED exceptConfig

\* settings.py:131-133  the last validation, then return settings
LsValidate ==
    /\ ls_pc = "validate"
    /\ IF validate_log_level(settings.level, TRUE) = "True"
          THEN ls_pc' = "returned" /\ ls_exc' = "None"
          ELSE ls_pc' = "raised" /\ ls_exc' = "ConfigError"
    /\ UNCHANGED <<config_path, environ, settings>>
    /\ UNCHANGED exceptConfig

\* ---- Settings.get_log_level
\* Every way of writing the letters of w in upper and lower case
Casings(w) ==
    {[k \in 1..Len(w) |-> [c |-> w[k], up |-> k \in U /\ w[k] \notin NonLetters]] :
        U \in SUBSET (1..Len(w))}

\* The level strings get_log_level is called with: the five level names, and
\* strings that are none of them, in every casing
LevelWords ==
    {<<"d", "e", "b", "u", "g">>, <<"i", "n", "f", "o">>,
     <<"w", "a", "r", "n", "i", "n", "g">>, <<"e", "r", "r", "o", "r">>,
     <<"c", "r", "i", "t", "i", "c", "a", "l">>,
     <<"b", "o", "g", "u", "s">>, <<"w", "a", "r", "n">>, <<"i", "n", "f", "o", " ">>,
     <<>>}

LevelStrings == UNION {Casings(w) : w \in LevelWords}

\* Settings(level=...): the object get_log_level is called on
InitLevel(levels) ==
    /\ self_level \in levels
    /\ gl_pc = "call"
    /\ gl_out = Returned(0)

\* settings.py:64-76  one call of get_log_level
GetLogLevel ==
    /\ gl_pc = "call"
    /\ gl_out' = get_log_level(self_level)
    /\ gl_pc' = "done"
    /\ UNCHANGED self_level
    /\ UNCHANGED exceptLevel

\* ------------------------------------------------ core.handlers.JSONHandler
\* A Python value is its type and its text.
Str(text) == [type |-> "str", text |-> text]
Int(text) == [type |-> "int", text |-> text]
Float(text) == [type |-> "float", text |-> text]
None == [type |-> "NoneType", text |-> "None"]
EmptyTuple == [type |-> "tuple", text |-> "()"]
\* sys.exc_info() of a caught exception
ExcInfo == [type |-> "tuple", text |-> "(type, value, traceback)"]
\* a value json.dumps has no encoding for
Object == [type |-> "object", text |-> "<object>"]

\* handlers.py:82  json.dumps encodes str, int, float and None, and raises
\* TypeError for a type it does not know
Serializable(v) == v.type \in {"str", "int", "float", "NoneType"}

\* The JSON value json.dumps writes for a Python value
json_value(v) ==
    [json |-> CASE v.type = "str" -> "string"
                [] v.type \in {"int", "float"} -> "number"
                [] OTHER -> "null",
     text |-> IF v.type = "NoneType" THEN "null" ELSE v.text]

\* handlers.py:53-76  the field names format keeps out of `extra`
ReservedFields ==
    {"name", "msg", "args", "created", "filename", "funcName", "levelname",
     "levelno", "lineno", "module", "msecs", "message", "pathname", "process",
     "processName", "relativeCreated", "thread", "threadName", "exc_info",
     "exc_text", "stack_info", "taskName"}

\* The attributes logging.LogRecord.__init__ sets; exc_info is the argument
\* of the same name.
StandardRecord(exc_info) ==
    [name |-> Str("app"), msg |-> Str("hello"), args |-> EmptyTuple,
     levelname |-> Str("INFO"), levelno |-> Int("20"),
     pathname |-> Str("/srv/app.py"), filename |-> Str("app.py"),
     module |-> Str("app"), exc_info |-> exc_info, exc_text |-> None,
     stack_info |-> None, lineno |-> Int("42"), funcName |-> Str("main"),
     created |-> Float("1.5"), msecs |-> Float("500.0"),
     relativeCreated |-> Float("0.1"), thread |-> Int("7"),
     threadName |-> Str("MainThread"), processName |-> Str("MainProcess"),
     process |-> Int("99"), taskName |-> None]

\* Attributes a record gets after construction: from the `extra` argument of
\* a logging call (user_id, request_id), and from a Formatter that formatted
\* the record before (asctime, message).
AddedAttributes == {"user_id", "request_id", "asctime", "message"}

AddedValues == {Str("123"), Object}

\* record.__dict__ with the added attributes
WithAdded(rec, added) ==
    [a \in DOMAIN rec \cup DOMAIN added |->
        IF a \in DOMAIN added THEN added[a] ELSE rec[a]]

LogRecords ==
    {WithAdded(StandardRecord(exc_info), added) :
        exc_info \in {None, ExcInfo},
        added \in UNION {[attrs -> AddedValues] : attrs \in SUBSET AddedAttributes}}

\* handlers.py:33-44  the basic fields; getMessage() is msg for empty args
BasicFields(rec) ==
    [timestamp |-> Str("<utc now>"), name |-> rec.name, level |-> rec.levelname,
     message |-> rec.msg, pathname |-> rec.pathname, lineno |-> rec.lineno,
     funcName |-> rec.funcName, thread |-> rec.thread,
     threadName |-> rec.threadName, process |-> rec.process]

\* handlers.py:51-77  the attributes of the record outside ReservedFields
ExtraFields(rec) ==
    [a \in {k \in DOMAIN rec : k \notin ReservedFields} |-> rec[a]]

\* handlers.py:31-82  JSONHandler.format.  A record with exc_info calls
\* self.formatException, which logging.Handler does not define
\* (AttributeError); json.dumps raises TypeError for a value it cannot
\* encode.  The value returned is the JSON object the returned text denotes.
JSONHandler_format(rec) ==
    LET log_data == BasicFields(rec)
        extra_fields == ExtraFields(rec)
    IN  IF rec.exc_info # None THEN Raised("AttributeError")
        ELSE IF \E a \in DOMAIN extra_fields : ~Serializable(extra_fields[a])
                THEN Raised("TypeError")
        ELSE Returned(
                 [k \in DOMAIN log_data
                          \cup (IF DOMAIN extra_fields # {} THEN {"extra"} ELSE {}) |->
                     IF k = "extra"
                        THEN [a \in DOMAIN extra_fields |-> json_value(extra_fields[a])]
                        ELSE json_value(log_data[k])])

InitJson(records) ==
    /\ log_record \in records
    /\ jf_pc = "call"
    /\ jf_out = Returned(0)

\* handlers.py:31-82  one call of JSONHandler().format(record)
JsonFormat ==
    /\ jf_pc = "call"
    /\ jf_out' = JSONHandler_format(log_record)
    /\ jf_pc' = "done"
    /\ UNCHANGED log_record
    /\ UNCHANGED exceptJson

\* ------------------------------------------------- utils.context.log_context
\* logging.NOTSET, the level of a logger nobody configured
NOTSET == 0

\* context.py:10  the target levels of the scopes that are checked:
\* logging.DEBUG and logging.WARNING
TargetLevels == {10, 30}

\* The levels the logger can have before the first scope: NOTSET and
\* logging.INFO.
InitialLevels == {NOTSET, 20}

\* The innermost scope of a thread.
Top(st) == st[Len(st)]
Pop(st) == SubSeq(st, 1, Len(st) - 1)
ReplaceTop(st, scope) == [st EXCEPT ![Len(st)] = scope]

NoExit == [ended |-> FALSE, raised |-> FALSE]

\* No scope is open.
InitContext(levels) ==
    /\ logger_level \in levels
    /\ lc_initial = logger_level
    /\ lc_stack = [t \in Threads |-> <<>>]
    /\ lc_entered = 0
    /\ lc_exit = NoExit

\* context.py:7-30  with log_context(logger, level): the generator starts.
\* before is history: the logger's level at the moment of the call.
LcEnter(t, depth, scopes) ==
    /\ Len(lc_stack[t]) < depth
    /\ lc_entered < scopes
    /\ \A i \in 1..Len(lc_stack[t]) : lc_stack[t][i].pc = "body"
    /\ \E level \in TargetLevels :
          lc_stack' = [lc_stack EXCEPT ![t] =
              Append(@, [level |-> level, original_level |-> NOTSET,
                         before |-> logger_level, pc |-> "save"])]
    /\ lc_entered' = lc_entered + 1
    /\ UNCHANGED <<logger_level, lc_initial, lc_exit>>
    /\ UNCHANGED exceptContext

\* context.py:33  original_level = logger_instance.level
LcSave(t) ==
    /\ lc_stack[t] # <<>>
    /\ Top(lc_stack[t]).pc = "save"
    /\ lc_stack' = [lc_stack EXCEPT ![t] =
          ReplaceTop(@, [Top(@) EXCEPT !.original_level = logger_level,
                                       !.pc = "set"])]
    /\ UNCHANGED <<logger_level, lc_initial, lc_entered, lc_exit>>
    /\ UNCHANGED exceptContext

\* context.py:37-38  logger_instance.setLevel(level); yield
LcSet(t) ==
    /\ lc_stack[t] # <<>>
    /\ Top(lc_stack[t]).pc = "set"
    /\ logger_level' = Top(lc_stack[t]).level
    /\ lc_stack' = [lc_stack EXCEPT ![t] =
          ReplaceTop(@, [Top(@) EXCEPT !.pc = "body"])]
    /\ UNCHANGED <<lc_initial, lc_entered, lc_exit>>
    /\ UNCHANGED exceptContext

\* LcExit without try/finally: a body that raises leaves the level as it is.
LcExitNoFinally(t) ==
    /\ lc_stack[t] # <<>>
    /\ Top(lc_stack[t]).pc = "body"
    /\ \E raised \in BOOLEAN :
          /\ logger_level' = IF raised THEN logger_level
                                       ELSE Top(lc_stack[t]).original_level
          /\ lc_exit' = [ended |-> TRUE, raised |-> raised]
    /\ lc_stack' = [lc_stack EXCEPT ![t] = Pop(@)]
    /\ UNCHANGED <<lc_initial, lc_entered>>
    /\ UNCHANGED exceptContext

\* LcExit that restores the level the logger had before any scope.
LcExitToInitial(t) ==
    /\ lc_stack[t] # <<>>
    /\ Top(lc_stack[t]).pc = "body"
    /\ logger_level' = lc_initial
    /\ \E raised \in BOOLEAN :
          lc_exit' = [ended |-> TRUE, raised |-> raised]
    /\ lc_stack' = [lc_stack EXCEPT ![t] = Pop(@)]
    /\ UNCHANGED <<lc_initial, lc_entered>>
    /\ UNCHANGED exceptContext

\* context.py:38-41  the body returns or raises; either way the finally
\* clause runs logger_instance.setLevel(original_level) and the scope is left
\* (an exception goes on into the enclosing code).
LcExit(t) ==
    /\ lc_stack[t] # <<>>
    /\ Top(lc_stack[t]).pc = "body"
    /\ logger_level' = Top(lc_stack[t]).original_level
    /\ \E raised \in BOOLEAN :
          lc_exit' = [ended |-> TRUE, raised |-> raised]
    /\ lc_stack' = [lc_stack EXCEPT ![t] = Pop(@)]
    /\ UNCHANGED <<lc_initial, lc_entered>>
    /\ UNCHANGED exceptContext

ContextStep(t, depth, scopes) ==
    \/ LcEnter(t, depth, scopes)
    \/ LcSave(t)
    \/ LcSet(t)
    \/ LcExit(t)

\* ------------------------------------------------------- utils.decorators
\* What a call of a callable ends with.
Returns(value) == [kind |-> "return", value |-> value, exc |-> "None"]
Raises(exc) == [kind |-> "raise", value |-> "None", exc |-> exc]

\* The exception classes below Exception; KeyboardInterrupt is a
\* BaseException only.
ExceptionClasses == {"ValueError", "AttributeError"}

\* decorators.py:64  except Exception catches this outcome
IsException(out) == out.kind = "raise" /\ out.exc \in ExceptionClasses

\* A callable without a __name__ attribute (a functools.partial, an instance
\* of a class with __call__).
NoName == "<no __name__>"

\* The callables that are wrapped: named or not; returning, raising an
\* Exception, raising a BaseException.  run is what one call does: the
\* entries it logs, in order, and how it ends.
Callables ==
    {[name |-> n, run |-> [log |-> <<>>, out |-> o]] :
        n \in {"f", NoName},
        o \in {Returns("result"), Raises("ValueError"), Raises("KeyboardInterrupt")}}

\* decorators.py:24,60  functools.wraps(func): the wrapper takes func's
\* __name__ when func has one, and keeps its own otherwise.
wraps(func) == IF func.name = NoName THEN "wrapper" ELSE func.name

\* decorators.py:33-36  logger.log(level, f"{func.__name__} took ... seconds
\* to execute")
DurationEntry(level, name) ==
    [kind |-> "duration", level |-> level, name |-> name, exc |-> "None",
     exc_info |-> FALSE]

\* decorators.py:65-69  logger.log(level, f"Error in {name}: {type}: {e!s}",
\* exc_info=True)
ErrorEntry(level, name, exc) ==
    [kind |-> "error", level |-> level, name |-> name, exc |-> exc,
     exc_info |-> TRUE]

\* decorators.py:9-40  log_execution_time(logger, level)(func).  The finally
\* clause runs however func ends; func.__name__ in it raises AttributeError
\* for a callable without that attribute, and that exception replaces the
\* call's own outcome before anything is logged.
log_execution_time(func, level) ==
    [name |-> wraps(func),
     run |-> IF func.name = NoName
                THEN [log |-> func.run.log, out |-> Raises("AttributeError")]
                ELSE [log |-> Append(func.run.log, DurationEntry(level, func.name)),
                      out |-> func.run.out]]

\* log_errors that ignores reraise and always swallows the exception.
log_errors_swallow(func, level, reraise) ==
    [name |-> wraps(func),
     run |-> IF IsException(func.run.out)
                THEN [log |-> Append(func.run.log,
                                     ErrorEntry(level,
                                                IF func.name = NoName
                                                   THEN "unknown" ELSE func.name,
                                                func.run.out.exc)),
                      out |-> Returns("None")]
                ELSE func.run]

\* decorators.py:43-76  log_errors(logger, level, reraise)(func): an
\* Exception of func is logged under getattr(func, "__name__", "unknown") and
\* then re-raised or replaced by return None; any other outcome passes through.
log_errors(func, level, reraise) ==
    [name |-> wraps(func),
     run |-> IF IsException(func.run.out)
                THEN [log |-> Append(func.run.log,
                                     ErrorEntry(level,
                                                IF func.name = NoName
                                                   THEN "unknown" ELSE func.name,
                                                func.run.out.exc)),
                      out |-> IF reraise THEN func.run.out ELSE Returns("None")]
                ELSE func.run]

\* The decorated callable of a call: log_errors alone, log_execution_time
\* alone, or log_errors applied outside log_execution_time
\* (__main__.py:283-285).
Decorated(call) ==
    CASE call.deco = "errors" ->
            log_errors(call.func, call.elevel, call.reraise)
      [] call.deco = "time" ->
            log_execution_time(call.func, call.tlevel)
      [] call.deco = "errors_over_time" ->
            log_errors(log_execution_time(call.func, call.tlevel),
                       call.elevel, call.reraise)

\* The calls that are checked; the levels are logging.INFO and logging.ERROR.
DecoCalls ==
    {[func |-> f, deco |-> d, reraise |-> r, elevel |-> el, tlevel |-> tl] :
        f \in Callables, d \in {"errors", "time", "errors_over_time"},
        r \in BOOLEAN, el \in {20, 40}, tl \in {20, 40}}

PlainCall ==
    [func |-> [name |-> "f", run |-> [log |-> <<>>, out |-> Returns("result")]],
     deco |-> "errors", reraise |-> TRUE, elevel |-> 40, tlevel |-> 20]

InitDeco(calls) ==
    /\ d_call \in calls
    /\ d_pc = "call"
    /\ d_result = [log |-> <<>>, out |-> Returns("None")]

\* One call of the decorated callable, from the call to its end.
DecoratedCall ==
    /\ d_pc = "call"
    /\ d_result' = Decorated(d_call).run
    /\ d_pc' = "done"
    /\ UNCHANGED d_call
    /\ UNCHANGED exceptDeco

\* ------------------------------------------- core.logger and shortcuts
\* logging.Logger.hasHandlers(): the logger or one of its ancestors has a
\* handler.
hasHandlers(own, parent) == own # <<>> \/ parent

\* get_rich_logger without the clearing of lines 65-66.
get_rich_logger_no_clear(own, parent) == Append(own, "RichHandler")

\* logger.py:61-82  get_rich_logger: logger.handlers after the call
get_rich_logger(own, parent) ==
    Append(IF hasHandlers(own, parent) THEN <<>> ELSE own, "RichHandler")

\* shortcuts.py:80-89  setup_logger_with_preset: with a config file
\* load_settings(...).create_logger(name) (settings.py:78-98), else the preset
\* table; both end in get_rich_logger.
setup_logger_with_preset(own, parent, config_file) ==
    IF config_file THEN get_rich_logger(own, parent)
                   ELSE get_rich_logger(own, parent)

\* shortcuts.py:135-152  setup_file_logger
setup_file_logger(own, parent) ==
    Append(get_rich_logger(own, parent), "FileHandler")

\* shortcuts.py:197-215  setup_json_logger
setup_json_logger(own, parent, include_console, buffered) ==
    Append(IF include_console THEN get_rich_logger(own, parent) ELSE <<>>,
           IF buffered THEN "BufferedHandler" ELSE "JSONHandler")

NoCall ==
    [fn |-> "None", include_console |-> FALSE, buffered |-> FALSE,
     config_file |-> FALSE, before |-> 0]

\* A logger nobody configured.
InitFactory(parents) ==
    /\ handlers = <<>>
    /\ parent_handlers \in parents
    /\ f_last = NoCall
    /\ f_calls = 0

\* The application itself adds a handler to the logger
\* (logging.Logger.addHandler): the existing handlers of logger.py:64-66.
AddHandler ==
    /\ f_calls < MaxFactoryCalls
    /\ handlers' = Append(handlers, "Handler")
    /\ f_last' = NoCall
    /\ f_calls' = f_calls + 1
    /\ UNCHANGED parent_handlers
    /\ UNCHANGED exceptFactory

CallGetRichLogger ==
    /\ f_calls < MaxFactoryCalls
    /\ handlers' = get_rich_logger(handlers, parent_handlers)
    /\ f_last' = [NoCall EXCEPT !.fn = "get_rich_logger", !.before = Len(handlers)]
    /\ f_calls' = f_calls + 1
    /\ UNCHANGED parent_handlers
    /\ UNCHANGED exceptFactory

CallSetupLoggerWithPreset ==
    /\ f_calls < MaxFactoryCalls
    /\ \E config_file \in BOOLEAN :
          /\ handlers' = setup_logger_with_preset(handlers, parent_handlers, config_file)
          /\ f_last' = [NoCall EXCEPT !.fn = "setup_logger_with_preset",
                                      !.config_file = config_file,
                                      !.before = Len(handlers)]
    /\ f_calls' = f_calls + 1
    /\ UNCHANGED parent_handlers
    /\ UNCHANGED exceptFactory

CallSetupFileLogger ==
    /\ f_calls < MaxFactoryCalls
    /\ handlers' = setup_file_logger(handlers, parent_handlers)
    /\ f_last' = [NoCall EXCEPT !.fn = "setup_file_logger", !.before = Len(handlers)]
    /\ f_calls' = f_calls + 1
    /\ UNCHANGED parent_handlers
    /\ UNCHANGED exceptFactory

CallSetupJsonLogger ==
    /\ f_calls < MaxFactoryCalls
    /\ \E include_console \in BOOLEAN, buffered \in BOOLEAN :
          /\ handlers' = setup_json_logger(handlers, parent_handlers,
                                           include_console, buffered)
          /\ f_last' = [NoCall EXCEPT !.fn = "setup_json_logger",
                                      !.include_console = include_console,
                                      !.buffered = buffered,
                                      !.before = Len(handlers)]
    /\ f_calls' = f_calls + 1
    /\ UNCHANGED parent_handlers
    /\ UNCHANGED exceptFactory

\* ---------------------------------------------------------- specifications
\* The BufferedHandler specifications leave the AsyncHandler as constructed
\* with queue_size 1, the AsyncHandler specification leaves the
\* BufferedHandler as constructed with buffer_size 1.
Init ==
    /\ InitBuffered(1..MaxBufferSize)
    /\ InitAsync({1})
    /\ InitConfig({NoPath}, {NoEnviron})
    /\ InitLevel({DEFAULT_LEVEL})
    /\ InitJson({StandardRecord(None)})
    /\ InitContext({NOTSET})
    /\ InitDeco({PlainCall})
    /\ InitFactory({FALSE})
    /\ InitAsyncHist
    /\ InitPropagated

InitForAsync ==
    /\ InitBuffered({1})
    /\ InitAsync(1..MaxQueueSize)
    /\ InitConfig({NoPath}, {NoEnviron})
    /\ InitLevel({DEFAULT_LEVEL})
    /\ InitJson({StandardRecord(None)})
    /\ InitContext({NOTSET})
    /\ InitDeco({PlainCall})
    /\ InitFactory({FALSE})
    /\ InitAsyncHist
    /\ InitPropagated

\* One call of load_settings, for every path and environment of the sets
\* above; the handlers stay as constructed.
InitForConfig ==
    /\ InitBuffered({1})
    /\ InitAsync({1})
    /\ \E suffix \in Suffixes : InitConfig(Paths(suffix), Environs)
    /\ InitLevel({DEFAULT_LEVEL})
    /\ InitJson({StandardRecord(None)})
    /\ InitContext({NOTSET})
    /\ InitDeco({PlainCall})
    /\ InitFactory({FALSE})
    /\ InitAsyncHist
    /\ InitPropagated

\* One call of get_log_level for every level string of LevelStrings.
InitForLevel ==
    /\ InitBuffered({1})
    /\ InitAsync({1})
    /\ InitConfig({NoPath}, {NoEnviron})
    /\ InitLevel(LevelStrings)
    /\ InitJson({StandardRecord(None)})
    /\ InitContext({NOTSET})
    /\ InitDeco({PlainCall})
    /\ InitFactory({FALSE})
    /\ InitAsyncHist
    /\ InitPropagated

\* One call of JSONHandler.format for every record of LogRecords.
InitForJson ==
    /\ InitBuffered({1})
    /\ InitAsync({1})
    /\ InitConfig({NoPath}, {NoEnviron})
    /\ InitLevel({DEFAULT_LEVEL})
    /\ InitJson(LogRecords)
    /\ InitContext({NOTSET})
    /\ InitDeco({PlainCall})
    /\ InitFactory({FALSE})
    /\ InitAsyncHist
    /\ InitPropagated

\* One BufferedHandler used by the threads of Threads.
Next == \E t \in Threads : BufferedStep(t, MaxCalls)

Spec == Init /\ [][Next]_vars

\* One BufferedHandler used by a single thread.
NextSingle == BufferedStep(1, MaxCallsSingle)

SpecSingle == Init /\ [][NextSingle]_vars

\* One BufferedHandler used by a single thread, over a base_handler whose
\* emit and flush can raise.
NextRaising ==
    \/ BufferedStep(1, MaxCallsSingle)
    \/ BaseEmitRaise(1)
    \/ FlushBaseRaise(1)

SpecRaising == Init /\ [][NextRaising]_vars

\* One AsyncHandler: its producers, its worker and the thread that closes it.
NextAsync ==
    \/ AsyncEmit
    \/ WorkerLoop
    \/ WorkerGet
    \/ WorkerTimeout
    \/ WorkerDeliver
    \/ AsyncCloseSet
    \/ AsyncJoinDone
    \/ AsyncJoinTimeout
    \/ AsyncCloseSuper

SpecAsync == InitForAsync /\ [][NextAsync]_vars

NextConfig ==
    \/ LsStart
    \/ LsFile
    \/ LsEnv
    \/ LsValidate

SpecConfig == InitForConfig /\ [][NextConfig]_vars

NextLevel == GetLogLevel

SpecLevel == InitForLevel /\ [][NextLevel]_vars

NextJson == JsonFormat

SpecJson == InitForJson /\ [][NextJson]_vars

\* The AsyncHandler with its worker scheduled fairly.  The worker is a
\* started daemon thread (handlers.py:91-92) that the interpreter keeps
\* scheduling: a step of its loop that stays possible is eventually taken.
\* queue.get returns within its timeout, and base_handler.emit returns or
\* raises.  Producers and the closing thread are under no obligation.
SpecAsyncFair ==
    /\ InitForAsync
    /\ [][NextAsync]_vars
    /\ WF_vars(WorkerLoop)
    /\ WF_vars(WorkerGet)
    /\ WF_vars(WorkerTimeout)
    /\ WF_vars(WorkerDeliver)

\* One thread that enters and leaves nested log_context scopes on one logger.
InitForContext ==
    /\ InitBuffered({1})
    /\ InitAsync({1})
    /\ InitConfig({NoPath}, {NoEnviron})
    /\ InitLevel({DEFAULT_LEVEL})
    /\ InitJson({StandardRecord(None)})
    /\ InitDeco({PlainCall})
    /\ InitFactory({FALSE})
    /\ InitAsyncHist
    /\ InitPropagated
    /\ InitContext(InitialLevels)

NextContextSingle == ContextStep(1, MaxDepth, MaxScopes)

SpecContextSingle == InitForContext /\ [][NextContextSingle]_vars

\* Every thread enters and leaves log_context scopes on the same logger, one
\* scope at a time, MaxScopes - 1 scopes in all.
NextContext == \E t \in Threads : ContextStep(t, 1, MaxScopes - 1)

SpecContext == InitForContext /\ [][NextContext]_vars

\* One call of a decorated callable for every call of DecoCalls.
InitForDeco ==
    /\ InitBuffered({1})
    /\ InitAsync({1})
    /\ InitConfig({NoPath}, {NoEnviron})
    /\ InitLevel({DEFAULT_LEVEL})
    /\ InitJson({StandardRecord(None)})
    /\ InitFactory({FALSE})
    /\ InitAsyncHist
    /\ InitPropagated
    /\ InitContext({NOTSET})
    /\ InitDeco(DecoCalls)

NextDeco == DecoratedCall

SpecDeco == InitForDeco /\ [][NextDeco]_vars

\* Sequences of factory calls on one logger name, with or without handlers on
\* an ancestor.
InitForFactory ==
    /\ InitBuffered({1})
    /\ InitAsync({1})
    /\ InitConfig({NoPath}, {NoEnviron})
    /\ InitLevel({DEFAULT_LEVEL})
    /\ InitJson({StandardRecord(None)})
    /\ InitAsyncHist
    /\ InitPropagated
    /\ InitContext({NOTSET})
    /\ InitDeco({PlainCall})
    /\ InitFactory(BOOLEAN)

NextFactory ==
    \/ AddHandler
    \/ CallGetRichLogger
    \/ CallSetupLoggerWithPreset
    \/ CallSetupFileLogger
    \/ CallSetupJsonLogger

SpecFactory == InitForFactory /\ [][NextFactory]_vars

\* ------------------------------------------------- claims: BufferedHandler
Count(s, r) == Cardinality({k \in 1..Len(s) : s[k] = r})

\* The records of thread t's snapshot that base_handler.emit has not been
\* called with yet.
Undelivered(t) ==
    IF pc[t] \in {"flush_unlock", "flush_loop"}
       THEN SubSeq(records_to_flush[t], idx[t], Len(records_to_flush[t]))
    ELSE IF pc[t] = "base_emit"
       THEN SubSeq(records_to_flush[t], idx[t] + 1, Len(records_to_flush[t]))
    ELSE <<>>

\* Thread t is inside a call of the underlying handler.
InBase(t) == pc[t] \in {"base_emit", "base_flush"}

OnlyEmitsSoFar == ncalls.flush = 0 /\ ncalls.close = 0

\* C1 (SpecSingle): on a fresh handler used by one thread with only emit
\* calls so far, once exactly buffer_size records have been emitted the
\* underlying handler has received all of them in emission order, its flush
\* has been called exactly once and the buffer is empty; once buffer_size - 1
\* records have been emitted the underlying handler has seen no emit and no
\* flush call and the buffer holds all of them.
C1_EmitCapacityFlushesOnce ==
    (OnlyEmitsSoFar /\ pc[1] = "idle") =>
        /\ \A k \in 1..Len(emitted) : emitted[k] = k
        /\ Len(emitted) = buffer_size =>
              /\ base_emitted = emitted
              /\ base_flushes = 1
              /\ buffer = <<>>
        /\ Len(emitted) + 1 = buffer_size =>
              /\ base_emitted = <<>>
              /\ base_flushes = 0
              /\ buffer = emitted

C1_Witness ==
    /\ OnlyEmitsSoFar
    /\ pc[1] = "idle"
    /\ buffer_size = 2
    /\ Len(emitted) = buffer_size
    /\ base_emitted = <<1, 2>>
    /\ base_flushes = 1

\* C2 (SpecSingle): a flush() that found the buffer empty makes no call on the
\* underlying handler: no thread is ever inside base_handler.emit or
\* base_handler.flush on behalf of a flush() whose snapshot is empty.
C2_FlushEmptyNoBaseCall ==
    \A t \in Threads :
        ~(op[t] = "flush" /\ InBase(t) /\ records_to_flush[t] = <<>>)

\* C3 (SpecSingle): whatever emit, flush and close calls one thread makes, the
\* records received by the underlying handler are a prefix of the emission
\* sequence (same order, nothing twice, nothing skipped).
C3_DeliveredIsPrefix ==
    /\ \A k \in 1..Len(emitted) : emitted[k] = k
    /\ IsPrefix(base_emitted, emitted)

C3_Witness ==
    /\ closed
    /\ ncalls.flush > 0
    /\ Len(base_emitted) >= 2
    /\ Len(base_emitted) < Len(emitted)

\* C4 (Spec): under every interleaving no record is delivered twice, none is
\* lost (each appended record is in the buffer, in a snapshot still to be
\* delivered, or delivered, exactly once over all three), and when a flush that
\* began after every emit call had returned completes, with no emit call made
\* since, every emitted record has been delivered exactly once and the buffer
\* is empty.
C4_ExactlyOnceAfterFlush ==
    /\ [](/\ NoDuplicates(base_emitted)
          /\ \A r \in Range(emitted) :
                Count(buffer, r) + Count(base_emitted, r)
                  + Cardinality({t \in Threads : Count(Undelivered(t), r) = 1}) = 1)
    /\ [][\A t \in Threads :
            (/\ pc[t] = "base_flush"
             /\ pc'[t] # "base_flush"
             /\ op[t] \in {"flush", "close"}
             /\ fence[t] = ncalls.emit)
            => /\ buffer' = <<>>
               /\ \A r \in 1..ncalls.emit : Count(base_emitted', r) = 1]_vars

\* C5 (Spec): the underlying handler is never being called by two threads at
\* once.
C5_OneThreadInBase ==
    Cardinality({t \in Threads : InBase(t)}) <= 1

\* C6 (Spec): the buffer lock is held only for the append-and-size-check of
\* emit and the snapshot-and-clear of flush; no thread holds it while it is
\* delivering to, or flushing, the underlying handler.
C6_LockNotHeldDuringIO ==
    /\ lock \in {0} \cup Threads
    /\ \A t \in Threads :
          /\ lock = t =>
                pc[t] \in {"emit_append", "emit_unlock", "flush_swap", "flush_unlock"}
          /\ (InBase(t) \/ pc[t] = "flush_loop") => lock # t

\* A producer holds the lock and appends while another thread is inside the
\* underlying handler's emit.
C6_Witness ==
    \E t, u \in Threads :
        /\ t # u
        /\ pc[t] = "base_emit"
        /\ lock = u
        /\ pc[u] = "emit_append"

\* C7 (SpecSingle): when close() returns, the buffer is empty and the
\* underlying handler has been closed.
C7_CloseClosesBase ==
    [][\A t \in Threads :
          (pc[t] = "close_super" /\ pc'[t] = "idle")
          => (buffer' = <<>> /\ base_closed')]_vars

\* C8 as stated (SpecSingle): no record whose emit began after close()
\* returned is ever passed to the underlying handler.
C8_PostCloseNeverDelivered ==
    Range(base_emitted) \cap post_close = {}

\* C8 as amended (SpecSingle): a record emitted after close() returned is
\* kept, not dropped.  Once its emit has returned it is in the buffer or
\* has been delivered; it stays in the buffer only while the buffer is below
\* buffer_size; and a flush (of emit, flush() or close()) that has delivered
\* its snapshot has delivered it.
C8_PostCloseBuffered ==
    /\ pc[1] = "idle" =>
          /\ post_close \subseteq Range(buffer) \cup Range(base_emitted)
          /\ Len(buffer) < buffer_size
    /\ pc[1] = "base_flush" =>
          post_close \subseteq Range(base_emitted)

C8_Witness ==
    /\ pc[1] = "idle"
    /\ Range(base_emitted) \cap post_close # {}
    /\ Range(buffer) \cap post_close # {}

\* ---------------------------------------------------- claims: AsyncHandler
\* C9 (SpecAsync): the queue never holds more than queue_size records, and an
\* emit made while it holds queue_size records returns with the queue
\* unchanged and the record dropped.
C9_EmitDropsWhenFull ==
    /\ [](queue_size >= 1 /\ Len(queue) <= queue_size)
    /\ [][(async_emits' = async_emits + 1 /\ Len(queue) = queue_size)
            => /\ queue' = queue
               /\ enqueued' = enqueued
               /\ dropped' = dropped \cup {async_emits + 1}]_vars

C9_Witness ==
    /\ dropped # {}
    /\ Len(queue) = queue_size
    /\ queue_size = 2

\* C10 (SpecAsync): the records the worker passes to the underlying handler
\* are a subsequence of the enqueued records, in the same order, and none is
\* passed twice.
C10_WorkerDeliversFifo ==
    /\ IsSubsequence(async_base_emitted, enqueued)
    /\ NoDuplicates(async_base_emitted)

C10_Witness ==
    /\ Len(async_base_emitted) >= 3
    /\ dropped # {}
    /\ async_base_raised # {}

\* C11 (SpecAsyncFair): when n records, n below queue_size, are all that is
\* ever emitted, close() is never called and the underlying handler never
\* raises, the underlying handler eventually has received exactly the n
\* records, in the order of their emission.
C11_AllDeliveredInOrder ==
    \A n \in 1..MaxAsyncEmits :
        ( /\ <>[](async_emits = n /\ n < queue_size)
          /\ [](~stop_event /\ async_base_raised = {}) )
        => <>(async_base_emitted = [k \in 1..n |-> k])

C11_Witness ==
    /\ queue_size = 3
    /\ async_emits = 2
    /\ ~stop_event
    /\ dropped = {}
    /\ async_base_raised = {}
    /\ async_base_emitted = <<1, 2>>

\* C12 (SpecAsyncFair): an exception of the underlying handler's emit stays
\* inside the worker.  The step in which it is raised changes nothing a
\* producer sees and leaves the worker at the top of its loop; the worker
\* ends only after close() has set the stop flag; and every record that is
\* in the queue after a failure is still delivered unless the handler is
\* closed.
C12_WorkerSurvivesBaseError ==
    /\ [](worker_pc = "exit" => stop_event)
    /\ [][async_base_raised' # async_base_raised
            => /\ worker_pc' = "loop"
               /\ queue' = queue
               /\ enqueued' = enqueued
               /\ dropped' = dropped
               /\ async_emits' = async_emits]_vars
    /\ \A r \in 1..MaxAsyncEmits :
          (r \in Range(queue) /\ async_base_raised # {})
             ~> (r \in Range(async_base_emitted) \/ stop_event)

\* The delivery of the first record raised, and a record emitted after
\* that was delivered all the same.
C12_Witness ==
    /\ ~stop_event
    /\ Len(async_base_emitted) >= 2
    /\ async_base_emitted[1] \in async_base_raised
    /\ async_base_emitted[2] \notin async_base_raised
    /\ worker_pc = "get"

\* C13 (SpecAsync): once close() has returned, the underlying handler has
\* been closed.
C13_CloseClosesBase ==
    close_pc = "done" => async_base_closed

\* C14 (SpecAsync): the worker is running from construction on; the
\* underlying handler's emit is called only by the worker, with the record it
\* took from the queue; and a producer's emit touches neither the underlying
\* handler nor the worker.
C14_OnlyWorkerCallsBase ==
    /\ worker_pc = "loop"
    /\ [][async_base_emitted' # async_base_emitted
            => /\ worker_pc = "deliver"
               /\ async_base_emitted' = Append(async_base_emitted, worker_record)]_vars
    /\ [][async_emits' # async_emits
            => /\ async_base_emitted' = async_base_emitted
               /\ async_base_raised' = async_base_raised
               /\ worker_pc' = worker_pc
               /\ worker_record' = worker_record]_vars

\* A producer's emit found the queue full while the worker was inside the
\* underlying handler's emit.
C14_Witness ==
    /\ worker_pc = "deliver"
    /\ dropped # {}
    /\ Len(async_base_emitted) >= 1

\* ----------------------------------------------------- claims: load_settings
Keys == {"level", "format", "date_format", "rich_tracebacks", "traceback_suppress"}

\* The empty string, in the representation of the key's environment variable
EmptyString(key) == IF key \in {"format", "date_format"} THEN "" ELSE <<>>

\* The environment variable of the key is set to a non-empty string
EnvNonEmpty(key) == environ[key].set /\ environ[key].val # EmptyString(key)

\* The environment variable of the key is set to the empty string
EnvEmpty(key) == environ[key].set /\ environ[key].val = EmptyString(key)

\* The value the key's environment variable stands for
EnvValue(key) ==
    CASE key = "rich_tracebacks" -> lower(environ[key].val) \in TrueWords
      [] key = "traceback_suppress" -> split_strip(environ[key].val)
      [] OTHER -> environ[key].val

\* The file exists, parses, and has the key in its [richlog] section
FileHas(key) ==
    /\ config_path.kind = "ok"
    /\ config_path.section
    /\ config_path[key].set

\* The value the file gives the key
FileValue(key) ==
    IF key = "traceback_suppress" /\ config_path.suffix = ".ini"
       THEN split_strip(config_path[key].val)
       ELSE config_path[key].val

\* file > default
FileOrDefault(key) == IF FileHas(key) THEN FileValue(key) ELSE Settings[key]

\* environment > file > default
Resolved(key) == IF EnvNonEmpty(key) THEN EnvValue(key) ELSE FileOrDefault(key)

\* The level that results from all layers is one of the five, ignoring case
LevelResolvedValid == upper(Resolved("level")) \in valid_levels

\* C15 (SpecConfig): in the Settings that load_settings returns, every key
\* has the value of its environment variable when that is set and non-empty,
\* else the value the file gives it when the file has the key, else the
\* default.
C15_EnvOverFileOverDefault ==
    ls_pc = "returned" => \A key \in Keys : settings[key] = Resolved(key)

\* C16 (SpecConfig): in the Settings that load_settings returns, a key whose
\* environment variable is set to the empty string has the value of the file,
\* or the default when the file does not have the key.
C16_EmptyEnvOverridesNothing ==
    ls_pc = "returned" =>
        \A key \in Keys : EnvEmpty(key) => settings[key] = FileOrDefault(key)

\* C17 (SpecConfig): for a call without a file, or with a file that parses,
\* load_settings returns a Settings exactly when the level that results from
\* all layers is valid, and raises otherwise; an invalid level in the file
\* under a valid RICHLOG_LEVEL does not make it raise.
C17_LevelValidatedAfterMerge ==
    (ls_pc \in {"returned", "raised"} /\ config_path.kind \in {"none", "ok"})
        => (ls_pc = "returned" <=> LevelResolvedValid)

\* C18 (SpecConfig): load_settings raises nothing but ConfigError; it raises
\* ConfigError when the path does not exist, when the file cannot be read or
\* parsed, and when the level is invalid; it never returns defaults in place
\* of a file it could not load.
C18_FailuresRaiseConfigError ==
    ls_pc \in {"returned", "raised"} =>
        /\ ls_exc \in {"None", "ConfigError"}
        /\ ls_pc = "raised" <=> ls_exc = "ConfigError"
        /\ config_path.kind \in {"missing", "unreadable", "malformed"}
              => ls_pc = "raised"
        /\ ~LevelResolvedValid => ls_pc = "raised"

\* ----------------------------------------------------- claims: get_log_level
\* The two strings have the same letters, whatever their case
SameIgnoringCase(a, b) ==
    /\ Len(a) = Len(b)
    /\ \A k \in 1..Len(a) : a[k].c = b[k].c

\* C19 (SpecLevel): get_log_level raises nothing; for a level string that is,
\* ignoring case, one of DEBUG, INFO, WARNING, ERROR, CRITICAL it returns
\* that level's number, and for any other string it returns logging.INFO (20).
C19_GetLogLevelTotal ==
    gl_pc = "done" =>
        /\ gl_out.exc = "None"
        /\ \A l \in valid_levels :
              SameIgnoringCase(self_level, l) => gl_out.value = level_map[l]
        /\ (\A l \in valid_levels : ~SameIgnoringCase(self_level, l))
              => gl_out.value = 20

\* get_log_level returned 30 for a mixed-case spelling of WARNING.
C19_Witness ==
    /\ gl_pc = "done"
    /\ SameIgnoringCase(self_level, WARNING)
    /\ self_level \notin {WARNING, lower(WARNING)}
    /\ gl_out = Returned(30)

\* ------------------------------------------------ claims: JSONHandler.format
CoreKeys ==
    {"timestamp", "name", "level", "message", "pathname", "lineno", "funcName",
     "thread", "threadName", "process"}

\* The attributes of the record that are no reserved fields
NonReserved(rec) == DOMAIN rec \ ReservedFields

\* C20 (SpecJson): format returns a JSON object; the object has the ten core
\* keys; it has the key `extra` exactly when the record has an attribute
\* outside the reserved fields; and `extra` then maps exactly those
\* attributes, each to the JSON value of the attribute's value.
C20_ExtraHoldsNonReserved ==
    jf_pc = "done" =>
        /\ jf_out.exc = "None"
        /\ CoreKeys \subseteq DOMAIN jf_out.value
        /\ "extra" \in DOMAIN jf_out.value <=> NonReserved(log_record) # {}
        /\ "extra" \in DOMAIN jf_out.value =>
              /\ DOMAIN jf_out.value["extra"] = NonReserved(log_record)
              /\ DOMAIN jf_out.value["extra"] \cap ReservedFields = {}
              /\ \A a \in NonReserved(log_record) :
                    jf_out.value["extra"][a] = json_value(log_record[a])

\* C21 (SpecJson): an extra field never makes format raise: for a record
\* without exc_info, whatever the values of its extra attributes, format
\* returns an object that has the ten core keys.
C21_ExtrasNeverRaise ==
    (jf_pc = "done" /\ log_record.exc_info = None) =>
        /\ jf_out.exc = "None"
        /\ CoreKeys \subseteq DOMAIN jf_out.value

\* ------------------------------------- claims: BufferedHandler, raising base
\* C27 (SpecRaising): no call of BufferedHandler.emit, flush or close ends
\* with an exception of the underlying handler.
C27_BaseErrorNeverPropagates ==
    propagated = <<>>

\* ------------------------------------------- claims: AsyncHandler shutdown
\* The records base_handler.emit was called with after the stop flag was set.
DeliveredAfterStop ==
    SubSeq(async_base_emitted, stop_delivered + 1, Len(async_base_emitted))

\* The records emit had put in the queue when the stop flag was set.
EnqueuedBeforeStop == {enqueued[j] : j \in 1..stop_enqueued}

\* C28 (SpecAsyncFair), as stated: once close() has set the stop flag the
\* worker delivers at most one further record, and no record enqueued after
\* that moment is ever delivered.
C28_NoneEnqueuedAfterStopDelivered ==
    stop_event =>
        /\ Len(DeliveredAfterStop) <= 1
        /\ \A i \in 1..Len(DeliveredAfterStop) :
              DeliveredAfterStop[i] \in EnqueuedBeforeStop

\* C28 (SpecAsyncFair), amended: once close() has set the stop flag the worker
\* delivers at most one further record (one it holds, or the next one its
\* current wait obtains, which may have been enqueued after the flag was set),
\* after that delivery it does not take another record, and it reaches the end
\* of its loop; every other record is never delivered.
C28_AtMostOneAfterStop ==
    /\ [](stop_event =>
            /\ Len(DeliveredAfterStop) <= 1
            /\ (Len(DeliveredAfterStop) = 1 => worker_pc \in {"loop", "exit"}))
    /\ (stop_event ~> worker_pc = "exit")

\* C28 witness: the stop flag was set while the worker waited on an empty
\* queue; a record enqueued afterwards was delivered, the worker has left its
\* loop and a record enqueued later still stays in the queue.
C28_Witness ==
    /\ stop_event
    /\ Len(DeliveredAfterStop) = 1
    /\ DeliveredAfterStop[1] \notin EnqueuedBeforeStop
    /\ worker_pc = "exit"
    /\ queue # <<>>

C22_NestedScopesRestore ==
    [][/\ (lc_stack'[1] # <<>> /\ Top(lc_stack'[1]).pc = "body")
              => logger_level' = Top(lc_stack'[1]).level
       /\ Len(lc_stack'[1]) < Len(lc_stack[1])
              => logger_level' = Top(lc_stack[1]).before
       /\ lc_stack'[1] = <<>> => logger_level' = lc_initial]_vars

\* C22 witness: an inner scope with another target than the enclosing one
\* was left by a raise and the logger is back at the enclosing scope's level,
\* which is not the original one.
C22_Witness ==
    /\ lc_stack[1] # <<>>
    /\ Top(lc_stack[1]).pc = "body"
    /\ lc_exit.ended
    /\ lc_exit.raised
    /\ logger_level = Top(lc_stack[1]).level
    /\ logger_level # lc_initial
    /\ lc_entered = MaxScopes

\* C23 (SpecContext): the step that leaves a scope sets the logger's level to
\* the value this scope read at its own entry, whatever other scopes and
\* threads did to the level since.
C23_ExitRestoresOwnEntryLevel ==
    [][\A t \in Threads :
          Len(lc_stack'[t]) < Len(lc_stack[t])
              => logger_level' = Top(lc_stack[t]).original_level]_vars

\* C23 witness: every scope has been left, and the logger stays at a stale
\* level, another scope's target that the scope left last had read at its
\* entry, not at the original one.
C23_Witness ==
    /\ \A t \in Threads : lc_stack[t] = <<>>
    /\ lc_exit.ended
    /\ logger_level # lc_initial
    /\ logger_level \in TargetLevels

\* ------------------------------------------------------ claims: decorators
\* C24 (SpecDeco): a callable wrapped by log_errors alone.  When it raises an
\* error, exactly one entry is logged, at the configured level, with the
\* callable's name, the error's type and the traceback, and the call then
\* ends with the same error (reraise) or returns None (reraise=False); when it
\* returns, nothing is logged and the call returns its result.
C24_LogErrorsOneEntryPerError ==
    (d_pc = "done" /\ d_call.deco = "errors") =>
        /\ IsException(d_call.func.run.out) =>
              /\ Len(d_result.log) = 1
              /\ d_result.log[1].kind = "error"
              /\ d_result.log[1].level = d_call.elevel
              /\ d_result.log[1].name
                    = (IF d_call.func.name = NoName THEN "unknown" ELSE d_call.func.name)
              /\ d_result.log[1].exc = d_call.func.run.out.exc
              /\ d_result.log[1].exc_info
              /\ d_call.reraise => d_result.out = d_call.func.run.out
              /\ ~d_call.reraise => d_result.out = Returns("None")
        /\ d_call.func.run.out.kind = "return" =>
              /\ d_result.log = <<>>
              /\ d_result.out = d_call.func.run.out

\* C24 witness: a callable under log_errors(reraise=False) raised ValueError;
\* one entry was logged and the call returned None.
C24_Witness ==
    /\ d_pc = "done"
    /\ d_call.deco = "errors"
    /\ ~d_call.reraise
    /\ d_call.func.run.out = Raises("ValueError")
    /\ Len(d_result.log) = 1
    /\ d_result.out = Returns("None")

\* C25 (SpecDeco): every call of a callable wrapped by log_execution_time
\* alone logs exactly one entry, at the configured level, and ends as the
\* callable ended: same result, same error.
C25_DurationLoggedOnEveryCall ==
    (d_pc = "done" /\ d_call.deco = "time") =>
        /\ Len(d_result.log) = 1
        /\ d_result.log[1].kind = "duration"
        /\ d_result.log[1].level = d_call.tlevel
        /\ d_result.out = d_call.func.run.out

\* C30 (SpecDeco): with log_errors(reraise=False) outside log_execution_time,
\* a call in which the callable raises an error logs the duration entry and
\* then the error entry and returns None; a call in which it returns logs the
\* duration entry alone and returns the result.
C30_DurationThenError ==
    (d_pc = "done" /\ d_call.deco = "errors_over_time" /\ ~d_call.reraise) =>
        /\ IsException(d_call.func.run.out) =>
              /\ Len(d_result.log) = 2
              /\ d_result.log[1].kind = "duration"
              /\ d_result.log[2].kind = "error"
              /\ d_result.out = Returns("None")
        /\ d_call.func.run.out.kind = "return" =>
              /\ Len(d_result.log) = 1
              /\ d_result.log[1].kind = "duration"
              /\ d_result.out = d_call.func.run.out

\* ------------------------------------------------- claims: logger factories
\* The handler count the last factory call stands for.
ExpectedCount(call) ==
    CASE call.fn \in {"get_rich_logger", "setup_logger_with_preset"} -> 1
      [] call.fn = "setup_file_logger" -> 2
      [] call.fn = "setup_json_logger" -> IF call.include_console THEN 2 ELSE 1

\* C26 (SpecFactory): after a factory call the logger has the number of
\* handlers of that call alone, whatever handlers it had before: 1 after
\* get_rich_logger and setup_logger_with_preset, 2 after setup_file_logger, 2
\* after setup_json_logger with the console and 1 without.
C26_FactoriesReplaceHandlers ==
    f_last # NoCall => Len(handlers) = ExpectedCount(f_last)

\* C26 witness: setup_json_logger(include_console=False) was called on a
\* logger that had two handlers and left it with one.
C26_Witness ==
    /\ f_last.fn = "setup_json_logger"
    /\ ~f_last.include_console
    /\ f_last.before = 2
    /\ Len(handlers) = 1

====
